---- MODULE Spec2Model ----
(***************************************************************************)
(* A model of the XML-subset parser of src/main.rs: the tokenizer          *)
(* (parse_file), entity expansion (parse_text), the tag-interior and       *)
(* attribute parsers (parse_tag_token, parse_tag_attributes) and the tree  *)
(* builder (parse_node_tree, parse_node_tree_part).                        *)
(*                                                                         *)
(* A Rust String is a sequence of one-character strings.  An Option is a   *)
(* sequence of length 0 (None) or 1 (Some).  A Result is a record with an  *)
(* ok flag.  An error message is the tuple of the pieces format! joins,    *)
(* written without the backquotes of the source text.                      *)
(***************************************************************************)
EXTENDS Integers, Sequences, FiniteSets, TLC

VARIABLES
    file, pos, current_token, is_tag, is_comment, tokens, lexState, lexErr,
    txIn, txOut, txState,
    treeTokens, tpos, prolog, stack, treeState, treeErr, document,
    tagIn, tagOut, tagState, attrIn, attrOut, attrState

lexVars == <<file, pos, current_token, is_tag, is_comment, tokens, lexState, lexErr>>
textVars == <<txIn, txOut, txState>>
treeVars == <<treeTokens, tpos, prolog, stack, treeState, treeErr, document>>
tagVars == <<tagIn, tagOut, tagState>>
attrVars == <<attrIn, attrOut, attrState>>
vars == <<lexVars, textVars, treeVars, tagVars, attrVars>>

None == <<>>
Some(v) == <<v>>

----------------------------------------------------------------------------
(* Strings *)

\* char::is_whitespace, on the characters the inputs use
Whitespace == {" ", "\t", "\n"}

is_whitespace(ch) == ch \in Whitespace

RECURSIVE trim_start(_)
trim_start(s) ==
    IF s # <<>> /\ is_whitespace(Head(s)) THEN trim_start(Tail(s)) ELSE s

RECURSIVE trim_end(_)
trim_end(s) ==
    IF s # <<>> /\ is_whitespace(s[Len(s)])
    THEN trim_end(SubSeq(s, 1, Len(s) - 1))
    ELSE s

\* str::trim
trim(s) == trim_end(trim_start(s))

\* str::starts_with
starts_with(s, p) == Len(s) >= Len(p) /\ SubSeq(s, 1, Len(p)) = p

\* str::find(' '): the index (from 1) of the first space, 0 when there is none
find_space(s) ==
    IF \E i \in 1..Len(s) : s[i] = " "
    THEN CHOOSE i \in 1..Len(s) : s[i] = " " /\ \A j \in 1..(i - 1) : s[j] # " "
    ELSE 0

\* the characters of s from index i to the end (chars.as_str())
Rest(s, i) == SubSeq(s, i, Len(s))

----------------------------------------------------------------------------
(* Entity expansion: parse_text, parse_text_entity *)

\* parse_text_entity without the lt arm
parse_text_entity_NoLt(input) ==
    CASE input = <<"g", "t">> -> Some(">")
      [] input = <<"a", "m", "p">> -> Some("&")
      [] input = <<"a", "p", "o", "s">> -> Some("'")
      [] input = <<"q", "u", "o", "t">> -> Some("\"")
      [] OTHER -> None

parse_text_entity(input) ==
    CASE input = <<"l", "t">> -> Some("<")
      [] input = <<"g", "t">> -> Some(">")
      [] input = <<"a", "m", "p">> -> Some("&")
      [] input = <<"a", "p", "o", "s">> -> Some("'")
      [] input = <<"q", "u", "o", "t">> -> Some("\"")
      [] OTHER -> None

\* the unknown-entity branch without output.push(';')
UnknownEntity_NoSemicolon(entity) == <<"&">> \o entity

\* the unknown-entity branch: &, the name, ;
UnknownEntity(entity) == <<"&">> \o entity \o <<";">>

\* a terminated entity that drops its terminating whitespace
EntityOutput_NoWhitespace(entity, ch) ==
    IF parse_text_entity(entity) # None
    THEN parse_text_entity(entity)
    ELSE UnknownEntity(entity)

\* what a terminated entity appends to the output
EntityOutput(entity, ch) ==
    (IF parse_text_entity(entity) # None
     THEN parse_text_entity(entity)
     ELSE UnknownEntity(entity))
    \o (IF is_whitespace(ch) THEN <<ch>> ELSE <<>>)

\* one iteration of the loop of parse_text on character ch
TextStep(st, ch) ==
    IF st.current_entity # None
    THEN IF ch = ";" \/ is_whitespace(ch)
         THEN [output |-> st.output \o EntityOutput(st.current_entity[1], ch),
               current_entity |-> None]
         ELSE [output |-> st.output,
               current_entity |-> Some(Append(st.current_entity[1], ch))]
    ELSE IF ch = "&"
         THEN [output |-> st.output, current_entity |-> Some(<<>>)]
         ELSE [output |-> Append(st.output, ch), current_entity |-> None]

RECURSIVE TextLoop(_, _, _)
TextLoop(input, i, st) ==
    IF i > Len(input) THEN st ELSE TextLoop(input, i + 1, TextStep(st, input[i]))

\* an open capture written out as &name when the input ends
parse_text_DanglingKept(input) ==
    LET st == TextLoop(input, 1, [output |-> <<>>, current_entity |-> None])
    IN  st.output \o (IF st.current_entity # None
                      THEN <<"&">> \o st.current_entity[1]
                      ELSE <<>>)

parse_text(input) ==
    TextLoop(input, 1, [output |-> <<>>, current_entity |-> None]).output

----------------------------------------------------------------------------
(* Tag interior: parse_tag_attribute_value, parse_tag_attributes,          *)
(* parse_tag_token                                                         *)

Ok(v) == [ok |-> TRUE, value |-> v, err |-> <<>>]
Err(e) == [ok |-> FALSE, value |-> <<>>, err |-> e]

\* an attribute value with its surrounding whitespace removed
parse_tag_attribute_value_Trimmed(string) == Ok(trim(string))

parse_tag_attribute_value(string) == Ok(string)

Attribute(key, value) == [key |-> key, value |-> value]

\* the character right after = taken as the quote, whitespace not skipped
SkipWhitespace_Never(s, i) == i

\* the first index >= i of s holding a non-whitespace character,
\* Len(s) + 1 when there is none (the let quote = loop of the = branch)
RECURSIVE SkipWhitespace(_, _)
SkipWhitespace(s, i) ==
    IF i <= Len(s) /\ is_whitespace(s[i]) THEN SkipWhitespace(s, i + 1) ELSE i

\* The loop of parse_tag_attributes from character i on.  key_opt is None
\* or Some([was_whitespace, key]); value_opt is None or Some([quote, value]).
RECURSIVE AttrLoop(_, _, _, _, _)
AttrLoop(s, i, attrs, key_opt, value_opt) ==
    IF i > Len(s)
    THEN LET attrs2 == IF key_opt # None
                       THEN Append(attrs, Attribute(key_opt[1].key, None))
                       ELSE attrs
         IN  IF value_opt # None
             THEN Err(<<"Unexpected end of tag. Expected ' or \"">>)
             ELSE Ok(attrs2)
    ELSE LET ch == s[i] IN
         IF key_opt = None
         THEN IF is_whitespace(ch)
              THEN AttrLoop(s, i + 1, attrs, key_opt, value_opt)
              ELSE IF ch = "="
              THEN Err(<<"Unexpected =. Expected start of attribute key">>)
              ELSE AttrLoop(s, i + 1, attrs,
                            Some([was_whitespace |-> FALSE, key |-> <<ch>>]),
                            value_opt)
         ELSE IF value_opt = None
         THEN IF is_whitespace(ch)
              THEN AttrLoop(s, i + 1, attrs,
                            Some([was_whitespace |-> TRUE, key |-> key_opt[1].key]),
                            value_opt)
              ELSE IF key_opt[1].was_whitespace /\ ch # "="
              THEN AttrLoop(s, i + 1,
                            Append(attrs, Attribute(key_opt[1].key, None)),
                            Some([was_whitespace |-> FALSE, key |-> <<ch>>]),
                            value_opt)
              ELSE IF ch # "="
              THEN AttrLoop(s, i + 1, attrs,
                            Some([was_whitespace |-> key_opt[1].was_whitespace,
                                  key |-> Append(key_opt[1].key, ch)]),
                            value_opt)
              ELSE LET q == SkipWhitespace(s, i + 1) IN
                   IF q > Len(s)
                   THEN Err(<<"Unexpected end of tag. Expected ' or \"">>)
                   ELSE IF s[q] # "\"" /\ s[q] # "'"
                   THEN Err(<<"Unexpected ", <<s[q]>>, ". Expected ' or \"">>)
                   ELSE AttrLoop(s, q + 1, attrs, key_opt,
                                 Some([quote |-> s[q], value |-> <<>>]))
         ELSE IF ch # value_opt[1].quote
              THEN AttrLoop(s, i + 1, attrs, key_opt,
                            Some([quote |-> value_opt[1].quote,
                                  value |-> Append(value_opt[1].value, ch)]))
              ELSE LET value == parse_tag_attribute_value(value_opt[1].value) IN
                   IF ~value.ok
                   THEN Err(value.err)
                   ELSE AttrLoop(s, i + 1,
                                 Append(attrs, Attribute(key_opt[1].key, Some(value.value))),
                                 None, None)

parse_tag_attributes(string) == AttrLoop(string, 1, <<>>, None, None)

TagToken(is_closing, name, attributes) ==
    [kind |-> "Tag", is_closing |-> is_closing, name |-> name, attributes |-> attributes]

TextToken(text) == [kind |-> "Text", text |-> text]

parse_tag_token(token0) ==
    IF token0 # <<>> /\ is_whitespace(Head(token0))
    THEN Err(<<"Unexpected whitespace in tag <", token0, ">">>)
    ELSE LET is_closing == starts_with(token0, <<"/">>)
             token == IF is_closing THEN Tail(token0) ELSE token0
         IN  IF is_closing /\ token # <<>> /\ is_whitespace(Head(token))
             THEN Err(<<"Unexpected whitespace in tag </", token, ">, after backslash">>)
             ELSE LET index == find_space(token) IN
                  IF index # 0
                  THEN LET name == SubSeq(token, 1, index - 1)
                           attrs == parse_tag_attributes(Rest(token, index))
                       IN  IF attrs.ok
                           THEN Ok(TagToken(is_closing, name, attrs.value))
                           ELSE Err(attrs.err)
                  ELSE Ok(TagToken(is_closing, token, <<>>))

----------------------------------------------------------------------------
(* Tokenizer: parse_file *)

\* the accumulator is flushed as a Text token when it is not blank
HoldsText(token) == trim(token) # <<>>

\* the Text token of the trimmed accumulator
TextOf_Trimmed(token) == TextToken(parse_text(trim(token)))

\* the Text token pushed for an accumulator
TextOf(token) == TextToken(parse_text(token))

\* the end-of-input check of an accumulator that holds text
UnterminatedTag(token, in_tag) == HoldsText(token) /\ in_tag

\* the lookahead of the catch-all arm, on the characters after ch
EntersComment(rest) == starts_with(rest, <<"<", "!", "-", "-">>)

ExitsComment(rest) == starts_with(rest, <<"-", "-", ">">>)

LexIdle ==
    /\ file = <<>> /\ pos = 1 /\ current_token = <<>> /\ is_tag = FALSE
    /\ is_comment = FALSE /\ tokens = <<>> /\ lexState = "idle" /\ lexErr = <<>>

LexFail(e) ==
    /\ lexState' = "err"
    /\ lexErr' = e
    /\ UNCHANGED <<file, pos, current_token, is_tag, is_comment, tokens>>

LexRunning == lexState = "run" /\ pos <= Len(file)

\* '<' if !is_comment
LexOpen ==
    /\ LexRunning /\ file[pos] = "<" /\ ~is_comment
    /\ IF is_tag
       THEN LexFail(<<"Unexpected <">>)
       ELSE /\ is_tag' = TRUE
            /\ tokens' = IF HoldsText(current_token)
                         THEN Append(tokens, TextOf(current_token))
                         ELSE tokens
            /\ current_token' = <<>>
            /\ pos' = pos + 1
            /\ UNCHANGED <<file, is_comment, lexState, lexErr>>
    /\ UNCHANGED <<textVars, treeVars, tagVars, attrVars>>

\* '>' if !is_comment
LexClose ==
    /\ LexRunning /\ file[pos] = ">" /\ ~is_comment
    /\ IF ~is_tag
       THEN LexFail(<<"Unexpected >">>)
       ELSE IF current_token = <<>>
       THEN /\ is_tag' = FALSE
            /\ pos' = pos + 1
            /\ UNCHANGED <<file, current_token, is_comment, tokens, lexState, lexErr>>
       ELSE LET tag == parse_tag_token(current_token) IN
            IF ~tag.ok
            THEN LexFail(tag.err)
            ELSE /\ is_tag' = FALSE
                 /\ tokens' = Append(tokens, tag.value)
                 /\ current_token' = <<>>
                 /\ pos' = pos + 1
                 /\ UNCHANGED <<file, is_comment, lexState, lexErr>>
    /\ UNCHANGED <<textVars, treeVars, tagVars, attrVars>>

\* the catch-all arm: any other character, and '<' and '>' in a comment
LexOther ==
    /\ LexRunning
    /\ ~(file[pos] \in {"<", ">"} /\ ~is_comment)
    /\ LET ch == file[pos]
           rest == Rest(file, pos + 1)
       IN  IF EntersComment(rest)
           THEN /\ is_comment' = TRUE
                /\ pos' = pos + 1
                /\ UNCHANGED current_token
           ELSE IF ExitsComment(rest)
           THEN /\ is_comment' = FALSE
                /\ pos' = pos + 1 + 3
                /\ UNCHANGED current_token
           ELSE /\ current_token' = IF ~is_comment
                                    THEN Append(current_token, ch)
                                    ELSE current_token
                /\ pos' = pos + 1
                /\ UNCHANGED is_comment
    /\ UNCHANGED <<file, is_tag, tokens, lexState, lexErr>>
    /\ UNCHANGED <<textVars, treeVars, tagVars, attrVars>>

\* after the loop
LexEnd ==
    /\ lexState = "run" /\ pos > Len(file)
    /\ IF UnterminatedTag(current_token, is_tag)
       THEN LexFail(<<"Unexpected end of file. Expected >">>)
       ELSE /\ tokens' = IF HoldsText(current_token)
                         THEN Append(tokens, TextOf(current_token))
                         ELSE tokens
            /\ lexState' = "ok"
            /\ UNCHANGED <<file, pos, current_token, is_tag, is_comment, lexErr>>
    /\ UNCHANGED <<textVars, treeVars, tagVars, attrVars>>

LexNext == LexOpen \/ LexClose \/ LexOther \/ LexEnd

----------------------------------------------------------------------------
(* Entity expansion applied to one text *)

TextIdle == txIn = <<>> /\ txOut = <<>> /\ txState = "idle"

TextApply ==
    /\ txState = "init"
    /\ txOut' = parse_text(txIn)
    /\ txState' = "done"
    /\ UNCHANGED <<txIn, lexVars, treeVars, tagVars, attrVars>>

TextNext == TextApply

----------------------------------------------------------------------------
(* The tag-interior parser applied to one accumulator, and the attribute   *)
(* parser applied to one attribute string                                  *)

NoResult == Err(<<>>)

TagIdle == tagIn = <<>> /\ tagOut = NoResult /\ tagState = "idle"

AttrIdle == attrIn = <<>> /\ attrOut = NoResult /\ attrState = "idle"

TagApply ==
    /\ tagState = "init"
    /\ tagOut' = parse_tag_token(tagIn)
    /\ tagState' = "done"
    /\ UNCHANGED <<tagIn, lexVars, textVars, treeVars, attrVars>>

TagNext == TagApply

AttrApply ==
    /\ attrState = "init"
    /\ attrOut' = parse_tag_attributes(attrIn)
    /\ attrState' = "done"
    /\ UNCHANGED <<attrIn, lexVars, textVars, treeVars, tagVars>>

AttrNext == AttrApply

----------------------------------------------------------------------------
(* Tree builder: parse_node_tree, parse_node_tree_part.  The recursion is  *)
(* a stack of frames, the innermost call last.  A frame holds the call's   *)
(* depth, current_tag_name and nodes, and the name and attributes of the   *)
(* tag whose children the call above it is collecting.                     *)

XmlProlog == <<"?", "x", "m", "l">>

TextNode(text) == [kind |-> "Text", text |-> text]

ElementNode(tag_name, attributes, children) ==
    [kind |-> "Element", tag_name |-> tag_name, attributes |-> attributes,
     children |-> children]

\* a call that is not handed the name of the element it collects
Frame_Unnamed(depth, current_tag_name) ==
    [depth |-> depth, current_tag_name |-> None, nodes |-> <<>>,
     name |-> <<>>, attributes |-> <<>>]

Frame(depth, current_tag_name) ==
    [depth |-> depth, current_tag_name |-> current_tag_name, nodes |-> <<>>,
     name |-> <<>>, attributes |-> <<>>]

\* the prolog taken from the first token
FirstProlog(toks) ==
    IF toks # <<>> /\ toks[1].kind = "Tag" /\ toks[1].name = XmlProlog
    THEN Some(toks[1].attributes)
    ELSE None

\* the prolog field of the returned Document (let prolog = None)
DocumentProlog(captured) == None

\* a closing tag checked for presence of an open element only
MismatchedClose_NameIgnored(current_tag_name, name) ==
    current_tag_name # None /\ FALSE

\* a closing tag that does not close the element being collected
MismatchedClose(current_tag_name, name) ==
    current_tag_name # None /\ current_tag_name[1] # name

\* the root check counting Elements only
SecondRoot_ElementsOnly(depth, nodes) ==
    depth = 0 /\ \E i \in 1..Len(nodes) : nodes[i].kind = "Element"

\* the root check off by one node
SecondRoot_OffByOne(depth, nodes) == depth = 0 /\ Len(nodes) > 1

\* an opening tag at depth 0 after some node
SecondRoot(depth, nodes) == depth = 0 /\ nodes # <<>>

Top == stack[Len(stack)]

SetTop(frame) == [stack EXCEPT ![Len(stack)] = frame]

TreeIdle ==
    /\ treeTokens = <<>> /\ tpos = 1 /\ prolog = None /\ stack = <<>>
    /\ treeState = "idle" /\ treeErr = <<>>
    /\ document = [prolog |-> None, children |-> <<>>]

TreeFail(state, e) ==
    /\ treeState' = state
    /\ treeErr' = e
    /\ UNCHANGED <<treeTokens, tpos, prolog, stack, document>>

\* Ok(nodes) of the innermost call: the Document at the outermost call,
\* an Element pushed on the caller's nodes otherwise
TreeReturn(consumed) ==
    IF Len(stack) = 1
    THEN /\ document' = [prolog |-> DocumentProlog(prolog), children |-> Top.nodes]
         /\ treeState' = "ok"
         /\ tpos' = tpos + consumed
         /\ UNCHANGED <<treeTokens, prolog, stack, treeErr>>
    ELSE LET caller == stack[Len(stack) - 1]
             node == ElementNode(caller.name, caller.attributes, Top.nodes)
         IN  /\ stack' = [SubSeq(stack, 1, Len(stack) - 1)
                            EXCEPT ![Len(stack) - 1].nodes = Append(caller.nodes, node)]
             /\ tpos' = tpos + consumed
             /\ UNCHANGED <<treeTokens, prolog, treeState, treeErr, document>>

\* parse_node_tree up to the call of parse_node_tree_part
TreeStart ==
    /\ treeState = "init"
    /\ prolog' = FirstProlog(treeTokens)
    /\ tpos' = IF FirstProlog(treeTokens) # None THEN 2 ELSE 1
    /\ stack' = <<Frame(0, None)>>
    /\ treeState' = "run"
    /\ UNCHANGED <<treeTokens, treeErr, document, lexVars, textVars, tagVars, attrVars>>

TreeRunning == treeState = "run" /\ tpos <= Len(treeTokens)

\* Token::Text
TreeText ==
    /\ TreeRunning /\ treeTokens[tpos].kind = "Text"
    /\ stack' = SetTop([Top EXCEPT !.nodes = Append(@, TextNode(treeTokens[tpos].text))])
    /\ tpos' = tpos + 1
    /\ UNCHANGED <<treeTokens, prolog, treeState, treeErr, document, lexVars, textVars, tagVars, attrVars>>

\* a tag named ?xml after the first token is skipped
TreeProlog_Skipped ==
    /\ TreeRunning /\ treeTokens[tpos].kind = "Tag"
    /\ treeTokens[tpos].name = XmlProlog
    /\ tpos' = tpos + 1
    /\ UNCHANGED <<treeTokens, prolog, stack, treeState, treeErr, document>>
    /\ UNCHANGED <<lexVars, textVars, tagVars, attrVars>>

\* Token::Tag named ?xml
TreeProlog ==
    /\ TreeRunning /\ treeTokens[tpos].kind = "Tag"
    /\ treeTokens[tpos].name = XmlProlog
    /\ TreeFail("err", <<"Unexpected XML prolog. Prolog must occur at beginning of file">>)
    /\ UNCHANGED <<lexVars, textVars, tagVars, attrVars>>

\* Token::Tag with is_closing
TreeClosing ==
    /\ TreeRunning /\ treeTokens[tpos].kind = "Tag"
    /\ treeTokens[tpos].name # XmlProlog
    /\ treeTokens[tpos].is_closing
    /\ LET name == treeTokens[tpos].name IN
       IF MismatchedClose(Top.current_tag_name, name)
       THEN TreeFail("err", <<"Mismatched closing tag </", name,
                              ">. Does not match <", Top.current_tag_name[1], ">">>)
       ELSE IF Top.depth = 0
       THEN TreeFail("err", <<"Unexpected closing tag </", name, ">. Expected end of file">>)
       ELSE TreeReturn(1)
    /\ UNCHANGED <<lexVars, textVars, tagVars, attrVars>>

\* Token::Tag that opens an element
TreeOpening ==
    /\ TreeRunning /\ treeTokens[tpos].kind = "Tag"
    /\ treeTokens[tpos].name # XmlProlog
    /\ ~treeTokens[tpos].is_closing
    /\ IF SecondRoot(Top.depth, Top.nodes)
       THEN TreeFail("err", <<"Unexpected opening tag. Expected end of file. Only one root node is allowed">>)
       ELSE /\ stack' = Append(SetTop([Top EXCEPT !.name = treeTokens[tpos].name,
                                                  !.attributes = treeTokens[tpos].attributes]),
                               Frame(Top.depth + 1, Some(treeTokens[tpos].name)))
            /\ tpos' = tpos + 1
            /\ UNCHANGED <<treeTokens, prolog, treeState, treeErr, document>>
    /\ UNCHANGED <<lexVars, textVars, tagVars, attrVars>>

\* the tokens are exhausted
TreeEnd ==
    /\ treeState = "run" /\ tpos > Len(treeTokens)
    /\ IF Top.depth > 0
       THEN IF Top.current_tag_name = None
            THEN TreeFail("panic", <<"called Option::unwrap() on a None value">>)
            ELSE TreeFail("err", <<"Unexpected end of file. Expected closing tag </",
                                   Top.current_tag_name[1], ">.">>)
       ELSE TreeReturn(0)
    /\ UNCHANGED <<lexVars, textVars, tagVars, attrVars>>

TreeNext == TreeStart \/ TreeText \/ TreeProlog \/ TreeClosing \/ TreeOpening \/ TreeEnd

----------------------------------------------------------------------------
(* Inputs *)

SeqsUpTo(S, n) == UNION {[1..k -> S] : k \in 0..n}

MaxLen == 5
MaxPre == 3
MaxMid == 2
MaxPost == 1
MaxText == 5
MaxTokens == 4

LexAlphabet == {"<", ">", "a", " ", "-", "/"}
PartAlphabet == {"<", ">", "a"}
TextAlphabet == {"&", ";", "l", "t", " "}

CommentOpen == <<"<", "!", "-", "-">>
CommentClose == <<"-", "-", ">">>

\* every short input, and every short input around one comment
ShortInputs == SeqsUpTo(LexAlphabet, MaxLen)

CommentInputs ==
    {pre \o CommentOpen \o mid \o CommentClose \o post :
        pre \in SeqsUpTo(PartAlphabet, MaxPre),
        mid \in SeqsUpTo(PartAlphabet, MaxMid),
        post \in SeqsUpTo(PartAlphabet, MaxPost)}

TextInputs == SeqsUpTo(TextAlphabet, MaxText)

\* <r><!-- <fake/> -->x</r>
S4_Input ==
    <<"<", "r", ">", "<", "!", "-", "-", " ", "<", "f", "a", "k", "e", "/",
      ">", " ", "-", "-", ">", "x", "<", "/", "r", ">">>

\* 5 &lt; 6 &amp; 7 &unknown; end
S3_Text ==
    <<"5", " ", "&", "l", "t", ";", " ", "6", " ", "&", "a", "m", "p", ";",
      " ", "7", " ", "&", "u", "n", "k", "n", "o", "w", "n", ";", " ", "e",
      "n", "d">>

\* 5 < 6 & 7 &unknown; end
S3_Expanded ==
    <<"5", " ", "<", " ", "6", " ", "&", " ", "7", " ", "&", "u", "n", "k",
      "n", "o", "w", "n", ";", " ", "e", "n", "d">>

\* <t>5 &lt; 6 &amp; 7 &unknown; end</t>
S3_Input == <<"<", "t", ">">> \o S3_Text \o <<"<", "/", "t", ">">>

\* <?xml version="1.0"?><r><c k="v">hi</c></r>
S2_Input ==
    <<"<", "?", "x", "m", "l", " ", "v", "e", "r", "s", "i", "o", "n", "=",
      "\"", "1", ".", "0", "\"", "?", ">", "<", "r", ">", "<", "c", " ",
      "k", "=", "\"", "v", "\"", ">", "h", "i", "<", "/", "c", ">", "<",
      "/", "r", ">">>

\* <r>a <!-- c -->b</r>
CommentInText ==
    <<"<", "r", ">", "a", " ", "<", "!", "-", "-", " ", "c", " ", "-", "-",
      ">", "b", "<", "/", "r", ">">>

\* &amp;lt;
EscapedEntity ==
    <<"&", "a", "m", "p", ";", "l", "t", ";">>

\* &gt;&apos;&quot;&amp x
OtherEntities ==
    <<"&", "g", "t", ";", "&", "a", "p", "o", "s", ";", "&", "q", "u", "o",
      "t", ";", "&", "a", "m", "p", " ", "x">>

\* \ta\n
TabbedText ==
    <<"\t", "a", "\n">>

TextScenarios == {S3_Text, EscapedEntity, OtherEntities, TabbedText}

LexScenarios == {S4_Input, S3_Input, S2_Input, CommentInText}

LexInputs == ShortInputs \cup CommentInputs \cup TextInputs \cup TextScenarios \cup LexScenarios

MaxTag == 5
MaxAttr == 6

TagAlphabet == {"/", "a", " ", "\t", "=", "\""}
AttrAlphabet == {"k", "v", "=", "\"", "'", " "}

\* t disabled k="v"
S6_Tag ==
    <<"t", " ", "d", "i", "s", "a", "b", "l", "e", "d", " ", "k", "=", "\"", "v", "\"">>

\* the attribute string of S6_Tag, from its first space on
S6_Attributes ==
    <<" ", "d", "i", "s", "a", "b", "l", "e", "d", " ", "k", "=", "\"", "v", "\"">>

\* a\tb c, a tab inside the first word
TabbedTag == <<"a", "\t", "b", " ", "c">>

\* k = 'v"' j, whitespace around = and a quote of the other kind in the value
SpacedAttributes == <<" ", "k", " ", "=", " ", "'", "v", "\"", "'", " ", "j">>

\* the accumulators parse_file hands to parse_tag_token are not empty
TagInputs == (SeqsUpTo(TagAlphabet, MaxTag) \ {<<>>}) \cup {S6_Tag, TabbedTag}

\* the strings parse_tag_token hands to parse_tag_attributes start at a space
AttrInputs ==
    {<<" ">> \o w : w \in SeqsUpTo(AttrAlphabet, MaxAttr)}
    \cup {S6_Attributes, SpacedAttributes}

TreeNames == {<<"a">>, <<"b">>, XmlProlog}
TreeAttributes == {<<>>, <<Attribute(<<"k">>, Some(<<"v">>))>>}

TokenAlphabet ==
    {TextToken(<<"x">>)} \cup
    {TagToken(c, n, a) : c \in BOOLEAN, n \in TreeNames, a \in TreeAttributes}

\* the tokens of <?xml version="1.0"?><r><c k="v">hi</c></r>
S2_Tokens ==
    <<TagToken(FALSE, XmlProlog,
               <<Attribute(<<"v", "e", "r", "s", "i", "o", "n">>,
                           Some(<<"1", ".", "0">>)),
                 Attribute(<<"?">>, None)>>),
      TagToken(FALSE, <<"r">>, <<>>),
      TagToken(FALSE, <<"c">>, <<Attribute(<<"k">>, Some(<<"v">>))>>),
      TextToken(<<"h", "i">>),
      TagToken(TRUE, <<"c">>, <<>>),
      TagToken(TRUE, <<"r">>, <<>>)>>

TreeInputs == SeqsUpTo(TokenAlphabet, MaxTokens) \cup {S2_Tokens}

----------------------------------------------------------------------------
(* Specifications *)

LexInit ==
    /\ file \in LexInputs
    /\ pos = 1 /\ current_token = <<>> /\ is_tag = FALSE /\ is_comment = FALSE
    /\ tokens = <<>> /\ lexState = "run" /\ lexErr = <<>>
    /\ TextIdle /\ TreeIdle /\ TagIdle /\ AttrIdle

TextInit ==
    /\ txIn \in TextInputs \cup TextScenarios
    /\ txOut = <<>> /\ txState = "init"
    /\ LexIdle /\ TreeIdle /\ TagIdle /\ AttrIdle

TreeInit ==
    /\ treeTokens \in TreeInputs
    /\ tpos = 1 /\ prolog = None /\ stack = <<>> /\ treeState = "init"
    /\ treeErr = <<>> /\ document = [prolog |-> None, children |-> <<>>]
    /\ LexIdle /\ TextIdle /\ TagIdle /\ AttrIdle

TagInit ==
    /\ tagIn \in TagInputs
    /\ tagOut = NoResult /\ tagState = "init"
    /\ LexIdle /\ TextIdle /\ TreeIdle /\ AttrIdle

AttrInit ==
    /\ attrIn \in AttrInputs
    /\ attrOut = NoResult /\ attrState = "init"
    /\ LexIdle /\ TextIdle /\ TreeIdle /\ TagIdle

SpecLex == LexInit /\ [][LexNext]_vars
SpecText == TextInit /\ [][TextNext]_vars
SpecTree == TreeInit /\ [][TreeNext]_vars
SpecTag == TagInit /\ [][TagNext]_vars
SpecAttr == AttrInit /\ [][AttrNext]_vars

Init == LexInit \/ TextInit \/ TreeInit \/ TagInit \/ AttrInit
Next == LexNext \/ TextNext \/ TreeNext \/ TagNext \/ AttrNext
Spec == Init /\ [][Next]_vars

----------------------------------------------------------------------------
(* Properties of the tokenizer's comment handling *)

S4_Tokens ==
    <<TagToken(FALSE, <<"r">>, <<>>), TextToken(<<"x">>), TagToken(TRUE, <<"r">>, <<>>)>>

\* C1: a comment that begins outside a tag is suppressed wherever it begins.
\* <r><!-- <fake/> -->x</r> tokenizes to [open r, Text x, closing r], and
\* reading the < of a comment that opens the input neither sets in_tag nor
\* fails.
C1_CommentSuppressed ==
    /\ (file = S4_Input /\ lexState # "run") => (lexState = "ok" /\ tokens = S4_Tokens)
    /\ (starts_with(file, CommentOpen) /\ pos \in 2..5) => (~is_tag /\ lexState = "run")

----------------------------------------------------------------------------
(* Properties of the tree builder *)

C2_FirstIsProlog ==
    treeTokens # <<>> /\ treeTokens[1].kind = "Tag" /\ treeTokens[1].name = XmlProlog

\* C2: when BuildTree succeeds, the Document's prolog is the attribute list
\* of the first token if that token is a tag named ?xml, and absent otherwise.
C2_PrologKept ==
    treeState = "ok" =>
        document.prolog = IF C2_FirstIsProlog THEN Some(treeTokens[1].attributes) ELSE None

\* the tokens a sequence of nodes is built from, closing tags without attributes
RECURSIVE TokensOf(_)
TokensOf(nodes) ==
    IF nodes = <<>>
    THEN <<>>
    ELSE LET n == Head(nodes) IN
         (IF n.kind = "Text"
          THEN <<TextToken(n.text)>>
          ELSE <<TagToken(FALSE, n.tag_name, n.attributes)>>
               \o TokensOf(n.children)
               \o <<TagToken(TRUE, n.tag_name, <<>>)>>)
         \o TokensOf(Tail(nodes))

WithoutClosingAttributes(toks) ==
    [i \in DOMAIN toks |->
        IF toks[i].kind = "Tag" /\ toks[i].is_closing
        THEN TagToken(TRUE, toks[i].name, <<>>)
        ELSE toks[i]]

\* the tokens after the prolog
BodyTokens == Rest(treeTokens, IF C2_FirstIsProlog THEN 2 ELSE 1)

IsError(e, head) == e # <<>> /\ e[1] = head

\* every Element's children are the nodes of the tokens between its opening
\* tag and a closing tag of the same name
C3_Balanced ==
    treeState = "ok" => TokensOf(document.children) = WithoutClosingAttributes(BodyTokens)

\* the builder is at a closing tag whose name is not the innermost open element's
C3_AtMismatch ==
    /\ TreeRunning /\ treeTokens[tpos].kind = "Tag" /\ treeTokens[tpos].is_closing
    /\ Top.current_tag_name # None
    /\ Top.current_tag_name[1] # treeTokens[tpos].name

\* C3 as stated: every Element of a successful parse is balanced, and every
\* closing tag whose name differs from the innermost open element's makes
\* BuildTree fail with the Mismatched closing tag error.
C3_AnyMismatchIsMismatchError ==
    /\ []C3_Balanced
    /\ [][C3_AtMismatch =>
            (treeState' = "err" /\ IsError(treeErr', "Mismatched closing tag </"))]_vars

\* C3 amended: every Element of a successful parse is balanced, and every
\* closing tag whose name differs from the innermost open element's makes
\* BuildTree fail: with the Mismatched closing tag error, except that a
\* closing tag named ?xml fails with the Unexpected XML prolog error.
C3_ElementBalance ==
    /\ []C3_Balanced
    /\ [][C3_AtMismatch =>
            /\ treeState' = "err"
            /\ IF treeTokens[tpos].name = XmlProlog
               THEN IsError(treeErr', "Unexpected XML prolog. Prolog must occur at beginning of file")
               ELSE IsError(treeErr', "Mismatched closing tag </")]_vars

\* <a><b></a>: the mismatch is found with two elements open
C3_Witness ==
    /\ treeState = "err" /\ IsError(treeErr, "Mismatched closing tag </")
    /\ Len(stack) >= 3

Elements(nodes) == {i \in DOMAIN nodes : nodes[i].kind = "Element"}

\* C4: a successful Document has at most one Element at top level, and an
\* opening tag at depth 0 after a top-level Element makes BuildTree fail.
C4_SingleRoot ==
    /\ [](treeState = "ok" => Cardinality(Elements(document.children)) <= 1)
    /\ [][(/\ TreeRunning /\ Len(stack) = 1
           /\ treeTokens[tpos].kind = "Tag" /\ ~treeTokens[tpos].is_closing
           /\ Elements(Top.nodes) # {})
          => treeState' = "err"]_vars

\* a root element followed by top-level text
C4_Witness ==
    /\ treeState = "ok"
    /\ Cardinality(Elements(document.children)) = 1
    /\ Len(document.children) >= 2

----------------------------------------------------------------------------
(* Properties of entity expansion *)

\* the index of the first & of s, 0 when there is none
FirstAmp(s) ==
    IF \E i \in 1..Len(s) : s[i] = "&"
    THEN CHOOSE i \in 1..Len(s) : s[i] = "&" /\ \A j \in 1..(i - 1) : s[j] # "&"
    ELSE 0

IsTerminator(ch) == ch = ";" \/ ch \in Whitespace

\* the index of the first ; or whitespace after index a, 0 when there is none
FirstTerminator(s, a) ==
    IF \E j \in (a + 1)..Len(s) : IsTerminator(s[j])
    THEN CHOOSE j \in (a + 1)..Len(s) :
            IsTerminator(s[j]) /\ \A k \in (a + 1)..(j - 1) : ~IsTerminator(s[k])
    ELSE 0

\* every entity capture of s is terminated
RECURSIVE AllTerminated(_)
AllTerminated(s) ==
    LET a == FirstAmp(s) IN
    IF a = 0 THEN TRUE
    ELSE LET j == FirstTerminator(s, a) IN
         IF j = 0 THEN FALSE ELSE AllTerminated(Rest(s, j + 1))

\* the names of the terminated entity captures of s
RECURSIVE CaptureNames(_)
CaptureNames(s) ==
    LET a == FirstAmp(s) IN
    IF a = 0 THEN {}
    ELSE LET j == FirstTerminator(s, a) IN
         IF j = 0 THEN {}
         ELSE {SubSeq(s, a + 1, j - 1)} \cup CaptureNames(Rest(s, j + 1))

C5_Emitted(name) ==
    IF name = <<"l", "t">> THEN <<"<">>
    ELSE IF name = <<"g", "t">> THEN <<">">>
    ELSE IF name = <<"a", "m", "p">> THEN <<"&">>
    ELSE IF name = <<"a", "p", "o", "s">> THEN <<"'">>
    ELSE IF name = <<"q", "u", "o", "t">> THEN <<"\"">>
    ELSE <<"&">> \o name \o <<";">>

\* the expansion of s capture by capture, up to an unterminated capture
RECURSIVE C5_Expansion(_)
C5_Expansion(s) ==
    LET a == FirstAmp(s) IN
    IF a = 0 THEN s
    ELSE LET j == FirstTerminator(s, a) IN
         IF j = 0 THEN SubSeq(s, 1, a - 1)
         ELSE SubSeq(s, 1, a - 1)
              \o C5_Emitted(SubSeq(s, a + 1, j - 1))
              \o (IF s[j] \in Whitespace THEN <<s[j]>> ELSE <<>>)
              \o C5_Expansion(Rest(s, j + 1))

\* C5: every &NAME terminated by ; or whitespace is replaced by its character
\* when NAME is lt, gt, amp, apos or quot and by &NAME; otherwise, a
\* terminating whitespace is kept, and every other character is copied in
\* order; 5 &lt; 6 &amp; 7 &unknown; end expands to 5 < 6 & 7 &unknown; end.
C5_EntityExpansion ==
    txState = "done" =>
        /\ starts_with(txOut, C5_Expansion(txIn))
        /\ AllTerminated(txIn) => txOut = C5_Expansion(txIn)
        /\ txIn = S3_Text => txOut = S3_Expanded

C5_Witness == txState = "done" /\ txIn = S3_Text /\ txOut = S3_Expanded

Spellings ==
    {<<"&", "l", "t", ";">>, <<"&", "g", "t", ";">>, <<"&", "a", "m", "p", ";">>,
     <<"&", "a", "p", "o", "s", ";">>, <<"&", "q", "u", "o", "t", ";">>}

\* s contains one of the five recognized entity spellings
HasSpelling(s) ==
    \E i \in 1..Len(s) : \E sp \in Spellings : starts_with(Rest(s, i), sp)

\* every & of s is followed by a ; with no whitespace in between
EveryAmpClosed(s) ==
    \A i \in 1..Len(s) : s[i] = "&" =>
        \E j \in (i + 1)..Len(s) :
            s[j] = ";" /\ \A k \in (i + 1)..(j - 1) : ~IsTerminator(s[k])

\* C6 as stated: entity expansion returns unchanged every string that
\* contains none of the five recognized entity spellings.
C6_NoSpellingIsIdentity ==
    (txState = "done" /\ ~HasSpelling(txIn)) => txOut = txIn

\* C6 amended: entity expansion returns unchanged every string that contains
\* none of the five recognized entity spellings and in which every & is
\* followed by a ; before any whitespace and before the end of the string.
C6_EntityIdempotence ==
    (txState = "done" /\ ~HasSpelling(txIn) /\ EveryAmpClosed(txIn)) => txOut = txIn

\* an unrecognized entity, closed by ;, is kept as it is
C6_Witness ==
    /\ txState = "done" /\ ~HasSpelling(txIn) /\ EveryAmpClosed(txIn)
    /\ \E i \in 1..Len(txIn) : txIn[i] = "&"
    /\ txOut = txIn

----------------------------------------------------------------------------
(* Properties of the tokenizer *)

NoSpecial(s) == \A i \in 1..Len(s) : s[i] \notin {"<", ">", "&"}

\* C7: an input without <, > and & tokenizes to one Text token equal to the
\* whole input when it has a non-whitespace character, and to no token when
\* it is empty or blank.
C7_PlainText ==
    (lexState # "run" /\ NoSpecial(file)) =>
        /\ lexState = "ok"
        /\ tokens = IF \E i \in 1..Len(file) : file[i] \notin Whitespace
                    THEN <<TextToken(file)>>
                    ELSE <<>>

\* text with leading whitespace is kept whole
C7_Witness ==
    /\ lexState = "ok" /\ NoSpecial(file)
    /\ Len(file) >= 2 /\ file[1] \in Whitespace
    /\ tokens = <<TextToken(file)>>

TextTokens(toks) == {i \in DOMAIN toks : toks[i].kind = "Text"}

\* C8 as stated: after a successful Tokenize no Text token contains one of
\* the five recognized entity spellings.
C8_NoSpellingInText ==
    lexState = "ok" => \A i \in TextTokens(tokens) : ~HasSpelling(tokens[i].text)

\* the accumulator holds an &amp capture or a capture with an & in its name
Escaping(token) ==
    \E name \in CaptureNames(token) :
        name = <<"a", "m", "p">> \/ \E i \in 1..Len(name) : name[i] = "&"

\* C8 amended: a Text token contains one of the five recognized entity
\* spellings only if the text it was expanded from holds an entity capture
\* named amp or an entity capture whose name contains an &.
C8_ExpandedText ==
    [][(Len(tokens') = Len(tokens) + 1 /\ tokens'[Len(tokens')].kind = "Text"
        /\ HasSpelling(tokens'[Len(tokens')].text))
       => Escaping(current_token)]_vars

\* a recognized entity of the input was expanded
C8_Witness ==
    /\ lexState = "ok" /\ HasSpelling(file)
    /\ TextTokens(tokens) # {}
    /\ \A i \in TextTokens(tokens) : ~HasSpelling(tokens[i].text)

\* C9: a > read outside a tag and outside a comment makes Tokenize fail with
\* Unexpected >, and a --> is skipped only when the tokenizer is in a comment.
C9_CloseOutsideTag ==
    [][/\ (LexRunning /\ file[pos] = ">" /\ ~is_tag /\ ~is_comment)
            => (lexState' = "err" /\ lexErr' = <<"Unexpected >">>)
       /\ (pos' > pos + 1) => is_comment]_vars

\* C10: at end of input a tag still open with a non-empty accumulator,
\* whitespace-only included, makes Tokenize fail with Unexpected end of file.
C10_UnterminatedTag ==
    [][(lexState = "run" /\ pos > Len(file) /\ is_tag /\ current_token # <<>>)
       => (lexState' = "err" /\ lexErr' = <<"Unexpected end of file. Expected >">>)]_vars

----------------------------------------------------------------------------
(* Properties of the tree builder: prolog placement *)

\* the positions after the first that hold a tag named ?xml
LaterPrologs(toks) ==
    {i \in 2..Len(toks) : toks[i].kind = "Tag" /\ toks[i].name = XmlProlog}

\* C11: a tag named ?xml at any position other than the first makes BuildTree
\* fail, at every depth and whether or not a prolog was taken at position 0:
\* no run ends in a Document (or in a panic) when such a tag is present.
C11_PrologOnlyFirst ==
    (treeState # "init" /\ treeState # "run" /\ LaterPrologs(treeTokens) # {})
        => treeState = "err"

\* a second ?xml tag inside an open element, after a prolog was taken
C11_Witness ==
    /\ treeState = "err"
    /\ IsError(treeErr, "Unexpected XML prolog. Prolog must occur at beginning of file")
    /\ prolog # None
    /\ Len(stack) >= 2

----------------------------------------------------------------------------
(* Properties of the attribute parser *)

IsKeyChar(ch) == ch \notin Whitespace /\ ch # "="

\* the first index >= i of s that holds no whitespace, Len(s) + 1 when none
RECURSIVE FirstNonBlank(_, _)
FirstNonBlank(s, i) ==
    IF i <= Len(s) /\ s[i] \in Whitespace THEN FirstNonBlank(s, i + 1) ELSE i

\* the first index >= i of s that holds no key character, Len(s) + 1 when none
RECURSIVE KeyEnd(_, _)
KeyEnd(s, i) ==
    IF i <= Len(s) /\ IsKeyChar(s[i]) THEN KeyEnd(s, i + 1) ELSE i

\* the first index >= i of s that holds q, 0 when there is none
FirstAt(s, i, q) ==
    IF \E j \in i..Len(s) : s[j] = q
    THEN CHOOSE j \in i..Len(s) : s[j] = q /\ \A k \in i..(j - 1) : s[k] # q
    ELSE 0

\* The attributes of a well-formed attribute string read off its text, left
\* to right: a key is a maximal run of key characters; it carries the quoted
\* characters when an = (whitespace allowed on both sides) follows it, and
\* no value otherwise.
RECURSIVE SourceAttributes(_)
SourceAttributes(s) ==
    LET i == FirstNonBlank(s, 1) IN
    IF i > Len(s) THEN <<>>
    ELSE LET j == KeyEnd(s, i)
             key == SubSeq(s, i, j - 1)
             e == FirstNonBlank(s, j)
         IN  IF e <= Len(s) /\ s[e] = "="
             THEN LET q == FirstNonBlank(s, e + 1)
                      c == FirstAt(s, q + 1, s[q])
                  IN  <<Attribute(key, Some(SubSeq(s, q + 1, c - 1)))>>
                      \o SourceAttributes(Rest(s, c + 1))
             ELSE <<Attribute(key, None)>> \o SourceAttributes(Rest(s, j))

S6_Parsed ==
    <<Attribute(<<"d", "i", "s", "a", "b", "l", "e", "d">>, None),
      Attribute(<<"k">>, Some(<<"v">>))>>

\* C12: when the attribute parser succeeds, the attributes are listed in
\* source order, a bare key with an absent value and key="value" or
\* key='value' (whitespace allowed around =) with the quoted characters
\* verbatim; t disabled k="v" yields [(disabled, None), (k, Some(v))].
C12_AttributeOrder ==
    (attrState = "done" /\ attrOut.ok) =>
        /\ attrOut.value = SourceAttributes(attrIn)
        /\ attrIn = S6_Attributes => attrOut.value = S6_Parsed

\* a bare key, then a key with whitespace around = and a quoted value
C12_Witness ==
    /\ attrState = "done" /\ attrOut.ok
    /\ Len(attrOut.value) = 2
    /\ attrOut.value[1].value = None
    /\ attrOut.value[2].value # None
    /\ attrOut.value[2].value[1] # <<>>

----------------------------------------------------------------------------
(* Properties of the tree builder: tag counts *)

OpeningTags(toks) == {i \in DOMAIN toks : toks[i].kind = "Tag" /\ ~toks[i].is_closing}

ClosingTags(toks) == {i \in DOMAIN toks : toks[i].kind = "Tag" /\ toks[i].is_closing}

\* C13: when BuildTree succeeds, the number of non-closing tag tokens is the
\* number of closing tag tokens, plus one if a prolog tag is the first token.
C13_TagBalance ==
    treeState = "ok" =>
        Cardinality(OpeningTags(treeTokens)) =
            Cardinality(ClosingTags(treeTokens)) + (IF C2_FirstIsProlog THEN 1 ELSE 0)

----------------------------------------------------------------------------
(* Properties of the tokens the tokenizer emits *)

TagTokens(toks) == {i \in DOMAIN toks : toks[i].kind = "Tag"}

\* C14: every TagToken the tokenizer emits has a non-empty name and every
\* attribute it carries has a non-empty key, a tag interior of only /
\* included.
C14_NamedTags ==
    \A i \in TagTokens(tokens) :
        /\ tokens[i].name # <<>>
        /\ \A a \in DOMAIN tokens[i].attributes : tokens[i].attributes[a].key # <<>>

----------------------------------------------------------------------------
(* Properties of the tag-interior parser *)

\* the interior after its optional leading /
AfterSlash(token) ==
    IF token # <<>> /\ Head(token) = "/" THEN Tail(token) ELSE token

\* the index of the first whitespace character of s, 0 when there is none
FirstWhitespace(s) ==
    IF \E i \in 1..Len(s) : s[i] \in Whitespace
    THEN CHOOSE i \in 1..Len(s) :
            s[i] \in Whitespace /\ \A j \in 1..(i - 1) : s[j] \notin Whitespace
    ELSE 0

\* C15: after the optional leading /, the tag name is the maximal prefix up
\* to the first whitespace character of any kind, or the whole remainder when
\* there is none, and everything after the name goes to the attribute parser.
C15_NameUpToWhitespace ==
    (tagState = "done" /\ tagOut.ok) =>
        LET body == AfterSlash(tagIn)
            w == FirstWhitespace(body)
        IN  IF w = 0
            THEN tagOut.value.name = body /\ tagOut.value.attributes = <<>>
            ELSE /\ tagOut.value.name = SubSeq(body, 1, w - 1)
                 /\ tagOut.value.attributes = SourceAttributes(Rest(body, w))

----------------------------------------------------------------------------
(* Properties of the tokenizer: what reaches the accumulator *)

\* the tokens of <r>a <!-- c -->b</r> with the text on both sides of the
\* comment kept in full
CommentInText_Tokens ==
    <<TagToken(FALSE, <<"r">>, <<>>), TextToken(<<"a", " ", "b">>),
      TagToken(TRUE, <<"r">>, <<>>)>>

\* C16: every character other than an unguarded < or > that is read outside
\* comment mode is appended to the accumulator, so the text of
\* <r>a <!-- c -->b</r> keeps a, the space before the comment, and b.
C16_TextAroundComment ==
    /\ [][(LexRunning /\ ~is_comment /\ file[pos] \notin {"<", ">"})
          => current_token' = Append(current_token, file[pos])]_vars
    /\ []((file = CommentInText /\ lexState # "run")
          => (lexState = "ok" /\ tokens = CommentInText_Tokens))

----------------------------------------------------------------------------
(* Properties of the attribute parser: failures *)

\* The failure of an attribute string read off its text, left to right:
\* "key" for an = where a key must start, "quote" when the first
\* non-whitespace character after a key's = is no quote or is missing,
\* "value" when a quoted value is never closed by the quote that opened it,
\* "none" otherwise.
RECURSIVE AttrFailure(_)
AttrFailure(s) ==
    LET i == FirstNonBlank(s, 1) IN
    IF i > Len(s) THEN "none"
    ELSE IF s[i] = "=" THEN "key"
    ELSE LET j == KeyEnd(s, i)
             e == FirstNonBlank(s, j)
         IN  IF e <= Len(s) /\ s[e] = "="
             THEN LET q == FirstNonBlank(s, e + 1) IN
                  IF q > Len(s) \/ s[q] \notin {"'", "\""}
                  THEN "quote"
                  ELSE LET c == FirstAt(s, q + 1, s[q]) IN
                       IF c = 0 THEN "value" ELSE AttrFailure(Rest(s, c + 1))
             ELSE AttrFailure(Rest(s, j))

\* C17: the attribute parser fails exactly when an = is read where a key
\* must start, when after a key's = the next non-whitespace character is not
\* a quote or the input ends first, or when the input ends inside a quoted
\* value; on every other input it succeeds.
C17_AttributeFailures ==
    attrState = "done" =>
        /\ attrOut.ok <=> AttrFailure(attrIn) = "none"
        /\ AttrFailure(attrIn) = "key"
            => IsError(attrOut.err, "Unexpected =. Expected start of attribute key")
        /\ AttrFailure(attrIn) = "value"
            => IsError(attrOut.err, "Unexpected end of tag. Expected ' or \"")

\* a quoted value the input ends in, a ' among its characters
C17_Witness ==
    /\ attrState = "done" /\ ~attrOut.ok
    /\ AttrFailure(attrIn) = "value"
    /\ \E i \in 1..Len(attrIn) : attrIn[i] = "'"

----------------------------------------------------------------------------
(* Properties of entity expansion: the dangling capture *)

\* the indices of the & of s that no ; and no whitespace follows
Dangling(s) ==
    {a \in 1..Len(s) : s[a] = "&" /\ \A j \in (a + 1)..Len(s) : ~IsTerminator(s[j])}

\* C18: an & followed by neither ; nor whitespace before the end of the text
\* produces nothing, and neither does any character after it: the output is
\* the expansion of the text before that &.
C18_DanglingDiscarded ==
    txState = "done" =>
        \A a \in Dangling(txIn) :
            /\ txOut = parse_text(SubSeq(txIn, 1, a - 1))
            /\ FirstAmp(txIn) = a => txOut = SubSeq(txIn, 1, a - 1)

\* a terminated capture, then a dangling one with a name
C18_Witness ==
    /\ txState = "done" /\ txOut # <<>>
    /\ \E a \in Dangling(txIn) : a < Len(txIn) /\ FirstAmp(txIn) < a

----------------------------------------------------------------------------
(* Properties of the tree builder: the place of the root *)

OnlyOneRoot ==
    "Unexpected opening tag. Expected end of file. Only one root node is allowed"

\* an opening tag is read at depth 0 after some top-level node
C19_OpeningAfterNode ==
    /\ TreeRunning /\ Top.depth = 0 /\ Top.nodes # <<>>
    /\ treeTokens[tpos].kind = "Tag" /\ ~treeTokens[tpos].is_closing

\* every opening tag read at depth 0 after a top-level node, whatever its
\* name, fails with the one-root error
C19_AnyOpeningIsSecondRoot ==
    [][C19_OpeningAfterNode
        => (treeState' = "err" /\ IsError(treeErr', OnlyOneRoot))]_vars

\* C19: in a successful Document a top-level Element is the first top-level
\* child; an opening tag read at depth 0 after any top-level node, a Text
\* included, fails with the one-root error (with the prolog error when it is
\* named ?xml); a Text read at depth 0 is accepted as a further top-level
\* child.
C19_RootFirst ==
    /\ [](treeState = "ok" =>
            \A i \in 1..Len(document.children) :
                document.children[i].kind = "Element" => i = 1)
    /\ [][(C19_OpeningAfterNode /\ treeTokens[tpos].name # XmlProlog)
            => (treeState' = "err" /\ IsError(treeErr', OnlyOneRoot))]_vars
    /\ [][(C19_OpeningAfterNode /\ treeTokens[tpos].name = XmlProlog)
            => (treeState' = "err" /\ ~IsError(treeErr', OnlyOneRoot))]_vars
    /\ [][(TreeRunning /\ Top.depth = 0 /\ treeTokens[tpos].kind = "Text")
            => /\ treeState' = "run"
               /\ stack' = <<[Top EXCEPT !.nodes =
                                Append(@, TextNode(treeTokens[tpos].text))]>>]_vars

\* an opening tag rejected after a Text that stands alone at the top level
C19_Witness ==
    /\ treeState = "err" /\ IsError(treeErr, OnlyOneRoot)
    /\ Len(Top.nodes) = 1 /\ Top.nodes[1].kind = "Text"

----------------------------------------------------------------------------
(* Properties of the tree builder: depth and the expected closing tag *)

\* the names of the elements the first i tokens of toks leave open,
\* outermost first
RECURSIVE OpenElements(_, _)
OpenElements(toks, i) ==
    IF i = 0 THEN <<>>
    ELSE LET open == OpenElements(toks, i - 1) IN
         IF toks[i].kind = "Text" THEN open
         ELSE IF toks[i].is_closing
              THEN (IF open = <<>> THEN open ELSE SubSeq(open, 1, Len(open) - 1))
              ELSE Append(open, toks[i].name)

UnexpectedEnd == "Unexpected end of file. Expected closing tag </"

\* C20: in every call of parse_node_tree_part depth > 0 holds exactly when
\* current_tag_name is set, so the unwrap at token exhaustion never panics
\* and parse_node_tree returns a Document or an error; an element left
\* unclosed at the end of the tokens yields the end-of-file error naming the
\* innermost open element.
C20_DepthNamesOpenElement ==
    /\ \A k \in 1..Len(stack) :
          /\ stack[k].depth = k - 1
          /\ stack[k].depth > 0 <=> stack[k].current_tag_name # None
    /\ treeState \in {"init", "run", "ok", "err"}
    /\ treeState = "ok" => OpenElements(BodyTokens, Len(BodyTokens)) = <<>>
    /\ (treeState = "err" /\ tpos > Len(treeTokens)) =>
          LET open == OpenElements(BodyTokens, Len(BodyTokens)) IN
          /\ open # <<>>
          /\ treeErr = <<UnexpectedEnd, open[Len(open)], ">.">>

\* two elements of different names left open, the inner one named
C20_Witness ==
    /\ treeState = "err" /\ IsError(treeErr, UnexpectedEnd)
    /\ Len(stack) = 3
    /\ treeErr[2] = stack[3].current_tag_name[1]
    /\ treeErr[2] # stack[2].current_tag_name[1]

====
